---- MODULE Spec2Model ----
(***************************************************************************)
(* Model of oxen.streaming_dataset.StreamingDataset: a background worker   *)
(* thread (_start_bg_collection / _fetch_next_buffer) fills a deque of     *)
(* buffers from a DatasetPathProvider, and the caller thread reads rows    *)
(* through __getitem__ / __iter__.                                         *)
(*                                                                         *)
(* Indices are 0-based as in the Python source; TLA+ sequences are         *)
(* 1-based, so element i of a Python list s is s[i + 1].                   *)
(***************************************************************************)
EXTENDS Integers, Sequences, FiniteSets, TLC

\* ---------------------------------------------------------------- bounds
MaxPaths == 2
MaxRows == 3
MaxBufSize == 2
MaxIters == 2

\* num_buffers=3 is the constructor's default; window depths 1..3 are explored
DefaultNumBuffers == 3

VARIABLES
    path_sizes,   \* heights of self._path_sizes: path_sizes[p + 1] = rows of path p
    features,     \* self._features
    ctor,         \* how __init__ ended: "ok" or "error"
    width,        \* self._size[0]
    culm_sizes,   \* self._culm_sizes
    height,       \* self._size[1]
    n_buffers,    \* self._n_buffers
    buffer_size,  \* self._buffer_size
    prov,         \* kind of provider: "mock", "short", "failing"
    mode,         \* how the caller drives the dataset: "iter" or "index"
    buffers,      \* self._buffers (deque), head first
    path_idx,     \* self._path_idx
    fetch_idx,    \* self._fetch_idx
    buffer_idx,   \* self._buffer_idx
    wpc,          \* worker thread position
    wbuf,         \* worker local: buffer returned by slice
    seen_len,     \* worker local: len(self._buffers) read by the capacity test
    cpc,          \* caller thread position
    cidx,         \* caller local: idx argument of the running __getitem__
    item,         \* caller local: item of the running / last __getitem__
    outcome,      \* how the last __getitem__ ended: "none", "row", "range_error", "read_error"
    iter_i,       \* loop variable of __iter__, -1 when no generator is active
    iters,        \* number of __iter__ generators started
    slices,       \* history: the slice calls made by the worker, in call order
    fetched,      \* history: buffers appended by the worker, in append order
    delivered,    \* history: items returned by __getitem__, in return order
    failed        \* history: a slice call has raised

vars == <<path_sizes, features, ctor, width, culm_sizes, height, n_buffers,
          buffer_size, prov, mode,
          buffers, path_idx, fetch_idx, buffer_idx, wpc, wbuf, seen_len,
          cpc, cidx, item, outcome, iter_i, iters, slices, fetched, delivered, failed>>

config == <<path_sizes, features, ctor, width, culm_sizes, height, n_buffers,
            buffer_size, prov, mode>>
workerVars == <<path_idx, fetch_idx, wpc, wbuf, seen_len, slices, fetched, failed>>
callerVars == <<buffer_idx, cpc, cidx, item, outcome, iter_i, iters, delivered>>

\* ------------------------------------------------------------- helpers
RECURSIVE SumSeq(_)
SumSeq(s) == IF s = <<>> THEN 0 ELSE s[1] + SumSeq(Tail(s))

RECURSIVE Concat(_)
Concat(bs) == IF bs = <<>> THEN <<>> ELSE bs[1] \o Concat(Tail(bs))

IsPrefix(s, t) == Len(s) <= Len(t) /\ SubSeq(t, 1, Len(s)) = s

NoItem == <<>>

\* ------------------------------------------------------------ provider
\* The columns of every data frame (MockPathProvider's default).
Columns == {"path", "x", "y"}

\* Row j of path p: a record holding one value per column, distinct for
\* every column, path and row.
Row(p, j) == [c \in Columns |-> <<c, p, j>>]

\* The rows of path p.
DataFrame(p) == [j \in 1..path_sizes[p + 1] |-> Row(p, j - 1)]

\* MockPathProvider.size: (width, height), (0, 0) for a path without rows
SizeOf(p) ==
    IF path_sizes[p + 1] = 0 THEN <<0, 0>>
    ELSE <<Cardinality(Columns), path_sizes[p + 1]>>

\* Python's index clamping for list[start:end].
Clamp(i, n) ==
    IF i < 0 THEN (IF i + n < 0 THEN 0 ELSE i + n)
    ELSE IF i > n THEN n ELSE i

PySlice(s, start, end) ==
    LET lo == Clamp(start, Len(s))
        hi == Clamp(end, Len(s))
    IN  IF lo >= hi THEN <<>> ELSE SubSeq(s, lo + 1, hi)

\* MockPathProvider.slice
MockSlice(p, start, end) == PySlice(DataFrame(p), start, end)

\* The buffers a slice call may return. A "short" provider may return any
\* non-empty prefix of the requested rows while rows remain.
SliceResults(p, start, end) ==
    LET exact == MockSlice(p, start, end)
    IN  IF prov = "short" /\ exact # <<>>
        THEN {SubSeq(exact, 1, n) : n \in 1..Len(exact)}
        ELSE {exact}

\* A slice call of a "failing" provider may raise.
SliceMayRaise == prov = "failing"

\* -------------------------------------------------------- construction
CulmSizes_Exclusive(sizes) == [i \in 1..Len(sizes) |-> SumSeq(SubSeq(sizes, 1, i - 1))]

\* lines 99-102
CulmSizes(sizes) == [i \in 1..Len(sizes) |-> SumSeq(SubSeq(sizes, 1, i))]

TotalHeight_SkipFirst(sizes) == IF sizes = <<>> THEN 0 ELSE SumSeq(Tail(sizes))

\* line 110
TotalHeight(sizes) == SumSeq(sizes)

RECURSIVE SeqsUpTo(_, _)
SeqsUpTo(S, n) ==
    IF n = 0 THEN {<<>>}
    ELSE LET shorter == SeqsUpTo(S, n - 1)
         IN  shorter \cup {Append(s, x) : s \in {t \in shorter : Len(t) = n - 1}, x \in S}

\* up to MaxPaths paths (none too), MaxRows rows at most in all
PathSizeChoices ==
    {s \in SeqsUpTo(0..MaxRows, MaxPaths) : SumSeq(s) <= MaxRows}

\* features=None, or a list of column names
NoFeatures == [given |-> FALSE, names |-> <<>>]

FeatureChoices == {NoFeatures, [given |-> TRUE, names |-> <<"x", "y">>]}

WidthOf_Native(feats) == IF path_sizes = <<>> THEN 0 ELSE SizeOf(0)[1]

\* lines 106-109
WidthOf(feats) == IF ~feats.given THEN SizeOf(0)[1] ELSE Len(feats.names)

\* line 107: self._path_sizes[0] of an empty list raises IndexError
CtorRaises(feats) == ~feats.given /\ Len(path_sizes) < 1

\* __init__(provider, features, num_buffers, buffer_size): the state it
\* leaves. When it raises, no thread was started and there is no dataset to
\* call.
ConstructOver(sizeChoices, bufSizeChoices, feats) ==
    /\ path_sizes \in sizeChoices
    /\ features = feats
    /\ culm_sizes = CulmSizes(path_sizes)
    /\ IF CtorRaises(feats)
       THEN /\ ctor = "error"
            /\ width = 0
            /\ height = 0
            /\ wpc = "unstarted"
            /\ cpc = "none"
       ELSE /\ ctor = "ok"
            /\ width = WidthOf(feats)
            /\ height = TotalHeight(path_sizes)
            /\ wpc = "loop"
            /\ cpc = "idle"
    /\ n_buffers \in 1..DefaultNumBuffers
    /\ buffer_size \in bufSizeChoices
    /\ prov \in {"mock", "short", "failing"}
    /\ mode \in {"iter", "index"}
    /\ buffers = <<>>
    /\ path_idx = 0
    /\ fetch_idx = 0
    /\ buffer_idx = 0
    /\ wbuf = <<>>
    /\ seen_len = 0
    /\ cidx = 0
    /\ item = NoItem
    /\ outcome = "none"
    /\ iter_i = -1
    /\ iters = 0
    /\ slices = <<>>
    /\ fetched = <<>>
    /\ delivered = <<>>
    /\ failed = FALSE

\* the datasets explored by default: path sets and buffer sizes within the bounds
Construct(feats) == ConstructOver(PathSizeChoices, 1..MaxBufSize, feats)

\* StreamingDataset(provider): features defaults to None
Init == Construct(NoFeatures)

\* StreamingDataset(provider, features) with the default num_buffers, with
\* and without a feature list
FeatureInit ==
    /\ \E feats \in FeatureChoices : Construct(feats)
    /\ n_buffers = DefaultNumBuffers

\* -------------------------------------------------------------- worker
NumPaths == Len(path_sizes)

\* line 210
PathsExhausted == path_idx >= NumPaths

HasCapacity_OffByOne == Len(buffers) <= n_buffers

\* line 217
HasCapacity == Len(buffers) < n_buffers

SliceStart_NoOffset == fetch_idx

SliceEnd_OneMore ==
    IF path_idx > 0 THEN fetch_idx + buffer_size + 1 - culm_sizes[path_idx]
    ELSE fetch_idx + buffer_size + 1

\* lines 226-233
SliceStart ==
    IF path_idx > 0 THEN fetch_idx - culm_sizes[path_idx] ELSE fetch_idx

SliceEnd ==
    IF path_idx > 0 THEN fetch_idx + buffer_size - culm_sizes[path_idx]
    ELSE fetch_idx + buffer_size

NextFetchIdx_FullBuffer(buffer) == fetch_idx + buffer_size

NextFetchIdx_Reset(buffer) == Len(buffer)

\* line 236
NextFetchIdx(buffer) == fetch_idx + Len(buffer)

PathDone_Early == fetch_idx + buffer_size >= culm_sizes[path_idx + 1]

PathDone_Strict == fetch_idx > culm_sizes[path_idx + 1]

\* line 239
PathDone == fetch_idx >= culm_sizes[path_idx + 1]

W_CheckPaths ==
    /\ wpc = "loop"
    /\ wpc' = IF PathsExhausted THEN "done" ELSE "cap"
    /\ UNCHANGED <<config, buffers, path_idx, fetch_idx, wbuf, seen_len,
                   slices, fetched, failed, callerVars>>

W_CheckCap ==
    /\ wpc = "cap"
    /\ seen_len' = Len(buffers)
    /\ wpc' = IF HasCapacity THEN "fetch" ELSE "sleep"
    /\ UNCHANGED <<config, buffers, path_idx, fetch_idx, wbuf,
                   slices, fetched, failed, callerVars>>

W_Sleep ==
    /\ wpc = "sleep"
    /\ wpc' = "loop"
    /\ seen_len' = 0
    /\ UNCHANGED <<config, buffers, path_idx, fetch_idx, wbuf,
                   slices, fetched, failed, callerVars>>

SliceRaised_Retry ==
    /\ wpc' = "loop"
    /\ failed' = TRUE
    /\ UNCHANGED <<buffers, path_idx, fetch_idx, wbuf, seen_len, fetched>>

\* An exception in the thread target ends the thread.
SliceRaised ==
    /\ wpc' = "dead"
    /\ failed' = TRUE
    /\ UNCHANGED <<buffers, path_idx, fetch_idx, wbuf, seen_len, fetched>>

W_Slice ==
    /\ wpc = "fetch"
    /\ slices' = Append(slices, [path |-> path_idx, start |-> SliceStart, end |-> SliceEnd])
    /\ \/ \E b \in SliceResults(path_idx, SliceStart, SliceEnd) :
             /\ wbuf' = b
             /\ wpc' = "advance"
             /\ UNCHANGED <<buffers, path_idx, fetch_idx, seen_len, fetched, failed>>
       \/ /\ SliceMayRaise
          /\ SliceRaised
    /\ UNCHANGED <<config, callerVars>>

W_Advance ==
    /\ wpc = "advance"
    /\ fetch_idx' = NextFetchIdx(wbuf)
    /\ wpc' = "pathchk"
    /\ UNCHANGED <<config, buffers, path_idx, wbuf, seen_len, slices, fetched, failed,
                   callerVars>>

W_PathCheck ==
    /\ wpc = "pathchk"
    /\ path_idx' = IF PathDone THEN path_idx + 1 ELSE path_idx
    /\ wpc' = "append"
    /\ UNCHANGED <<config, buffers, fetch_idx, wbuf, seen_len, slices, fetched, failed,
                   callerVars>>

W_Append_ResetCursor ==
    /\ wpc = "append"
    /\ buffers' = Append(buffers, wbuf)
    /\ buffer_idx' = 0
    /\ fetched' = Append(fetched, wbuf)
    /\ wbuf' = <<>>
    /\ seen_len' = 0
    /\ wpc' = "loop"
    /\ UNCHANGED <<config, path_idx, fetch_idx, slices, failed,
                   cpc, cidx, item, outcome, iter_i, iters, delivered>>

\* line 218: self._buffers.append(...)
W_Append ==
    /\ wpc = "append"
    /\ buffers' = Append(buffers, wbuf)
    /\ fetched' = Append(fetched, wbuf)
    /\ wbuf' = <<>>
    /\ seen_len' = 0
    /\ wpc' = "loop"
    /\ UNCHANGED <<config, path_idx, fetch_idx, slices, failed, callerVars>>

WorkerNext ==
    \/ W_CheckPaths
    \/ W_CheckCap
    \/ W_Sleep
    \/ W_Slice
    \/ W_Advance
    \/ W_PathCheck
    \/ W_Append

\* -------------------------------------------------------------- caller
OutOfRange_OffByOne(idx) == idx > height

\* line 166
OutOfRange(idx) == idx >= height

MustWait_EmptyOnly == Len(buffers) < 1

\* line 174
MustWait == Len(buffers) < 1 \/ buffer_idx >= Len(buffers[1])

CanEvict_Early == Len(buffers) > 1

CanEvict_NeedsThree == Len(buffers) > 2 /\ buffer_idx >= Len(buffers[1])

CanEvict_Single == Len(buffers) >= 1 /\ buffer_idx >= Len(buffers[1])

\* line 180
CanEvict == Len(buffers) > 1 /\ buffer_idx >= Len(buffers[1])

NextBufferIdx_Stuck == buffer_idx

ProjectItem_AllColumns(record) == record

\* lines 188-196
ProjectItem(record) ==
    IF ~features.given THEN record
    ELSE [f \in {features.names[i] : i \in 1..Len(features.names)} |-> record[f]]

NextBufferIdx_Two == buffer_idx + 2

\* line 199
NextBufferIdx == buffer_idx + 1

\* indices below, inside and above [0, height)
IndexInputs == (0 - 1)..(height + 1)

\* __iter__: a new generator over the same dataset
IterStart ==
    /\ mode = "iter"
    /\ cpc = "idle"
    /\ iter_i = -1
    /\ iters < MaxIters
    /\ iter_i' = 0
    /\ iters' = iters + 1
    /\ UNCHANGED <<config, buffers, workerVars, buffer_idx, cpc, cidx, item,
                   outcome, delivered>>

\* __iter__: yield self[i]
IterNext ==
    /\ mode = "iter"
    /\ cpc = "idle"
    /\ iter_i >= 0
    /\ iter_i < height
    /\ cidx' = iter_i
    /\ cpc' = "validate"
    /\ item' = NoItem
    /\ outcome' = "none"
    /\ UNCHANGED <<config, buffers, workerVars, buffer_idx, iter_i, iters, delivered>>

\* __iter__: range(len(self)) is exhausted
IterEnd ==
    /\ mode = "iter"
    /\ cpc = "idle"
    /\ iter_i >= 0
    /\ iter_i >= height
    /\ iter_i' = -1
    /\ UNCHANGED <<config, buffers, workerVars, buffer_idx, cpc, cidx, item,
                   outcome, iters, delivered>>

\* dataset[idx] called directly
GetItemCall ==
    /\ mode = "index"
    /\ cpc = "idle"
    /\ \E i \in IndexInputs : cidx' = i
    /\ cpc' = "validate"
    /\ item' = NoItem
    /\ outcome' = "none"
    /\ UNCHANGED <<config, buffers, workerVars, buffer_idx, iter_i, iters, delivered>>

\* lines 166-169
G_Validate ==
    /\ cpc = "validate"
    /\ IF OutOfRange(cidx)
       THEN /\ cpc' = "idle"
            /\ outcome' = "range_error"
       ELSE /\ cpc' = "loop"
            /\ UNCHANGED outcome
    /\ UNCHANGED <<config, buffers, workerVars, buffer_idx, cidx, item,
                   iter_i, iters, delivered>>

\* line 174
G_LoopTest ==
    /\ cpc = "loop"
    /\ cpc' = IF MustWait THEN "poll" ELSE "read"
    /\ UNCHANGED <<config, buffers, workerVars, buffer_idx, cidx, item, outcome,
                   iter_i, iters, delivered>>

\* lines 176-182
G_Poll ==
    /\ cpc = "poll"
    /\ IF CanEvict
       THEN /\ buffers' = Tail(buffers)
            /\ buffer_idx' = 0
       ELSE UNCHANGED <<buffers, buffer_idx>>
    /\ cpc' = "loop"
    /\ UNCHANGED <<config, workerVars, cidx, item, outcome, iter_i, iters, delivered>>

\* lines 185-196; subscripting out of range raises IndexError
G_Read ==
    /\ cpc = "read"
    /\ IF Len(buffers) >= 1 /\ buffer_idx >= 0 /\ buffer_idx < Len(buffers[1])
       THEN /\ item' = ProjectItem(buffers[1][buffer_idx + 1])
            /\ cpc' = "incr"
            /\ UNCHANGED outcome
       ELSE /\ cpc' = "idle"
            /\ outcome' = "read_error"
            /\ UNCHANGED item
    /\ UNCHANGED <<config, buffers, workerVars, buffer_idx, cidx, iter_i, iters, delivered>>

\* lines 199-201
G_Return ==
    /\ cpc = "incr"
    /\ buffer_idx' = NextBufferIdx
    /\ delivered' = Append(delivered, item)
    /\ outcome' = "row"
    /\ cpc' = "idle"
    /\ iter_i' = IF mode = "iter" THEN iter_i + 1 ELSE iter_i
    /\ UNCHANGED <<config, buffers, workerVars, cidx, item, iters>>

CallerNext ==
    \/ IterStart
    \/ IterNext
    \/ IterEnd
    \/ GetItemCall
    \/ G_Validate
    \/ G_LoopTest
    \/ G_Poll
    \/ G_Read
    \/ G_Return

Next == WorkerNext \/ CallerNext

Spec == Init /\ [][Next]_vars

\* Both threads are scheduled by the interpreter: neither is starved.
FairSpec == Spec /\ WF_vars(WorkerNext) /\ WF_vars(CallerNext)

\* The datasets built over a provider whose slice calls may raise.
FailingInit == Init /\ prov = "failing"

FailingSpec ==
    FailingInit /\ [][Next]_vars /\ WF_vars(WorkerNext) /\ WF_vars(CallerNext)

FeatureSpec == FeatureInit /\ [][Next]_vars

\* One path of 10 rows read with buffer_size=3 and num_buffers=2 through a
\* provider that returns full slices.
ScenarioInit ==
    /\ ConstructOver({<<10>>}, {3}, NoFeatures)
    /\ n_buffers = 2
    /\ prov = "mock"

\* The datasets built over a provider that returns full slices, that
\* scenario among them.
FullSliceInit == (Init /\ prov = "mock") \/ ScenarioInit

FullSliceSpec == FullSliceInit /\ [][Next]_vars

\* Path sets that end in paths without rows: one path of up to MaxRows rows
\* followed by up to as many empty paths as the default window has slots.
TrailingEmptyChoices ==
    {<<h>> \o [i \in 1..k |-> 0] : h \in 0..MaxRows, k \in 0..DefaultNumBuffers}

TrailingEmptyInit == ConstructOver(TrailingEmptyChoices, 1..MaxBufSize, NoFeatures)

TrailingEmptySpec ==
    TrailingEmptyInit /\ [][Next]_vars /\ WF_vars(WorkerNext) /\ WF_vars(CallerNext)

\* The worker thread is scheduled as long as it can run; nothing makes the
\* caller call __getitem__ again.
PrefetchSpec == FullSliceInit /\ [][Next]_vars /\ WF_vars(WorkerNext)

\* ===================================================================
\* Properties
\* ===================================================================
\* Global row k as the cumulative size table locates it: the path i with
\* culm[i-1] <= k < culm[i], at local index k - culm[i-1].
CulmBefore(i) == IF i = 0 THEN 0 ELSE culm_sizes[i]

PathOfRow(k) ==
    CHOOSE i \in 0..(NumPaths - 1) : CulmBefore(i) <= k /\ k < culm_sizes[i + 1]

ExpectedRow(k) == Row(PathOfRow(k), k - CulmBefore(PathOfRow(k)))

\* The rows of all paths, in path order then in-path order.
RECURSIVE RowsFrom(_)
RowsFrom(p) == IF p >= NumPaths THEN <<>> ELSE DataFrame(p) \o RowsFrom(p + 1)

AllRows == RowsFrom(0)

RECURSIVE TotalLen(_)
TotalLen(bs) == IF bs = <<>> THEN 0 ELSE Len(bs[1]) + TotalLen(Tail(bs))

InCall == cpc \in {"loop", "poll", "read", "incr"}

\* C1: with a non-failing provider and num_buffers >= 2, the k-th call of a
\* caller iterating 0, 1, ... receives the row at local index
\* k - culm[i-1] of the path i with culm[i-1] <= k < culm[i].
C1_OrderPreserved ==
    (mode = "iter" /\ prov # "failing" /\ n_buffers >= 2) =>
        /\ Len(delivered) <= height
        /\ \A k \in 1..Len(delivered) : delivered[k] = ExpectedRow(k - 1)
        /\ (cpc = "incr" => item = ExpectedRow(cidx))

C1_Witness ==
    /\ mode = "iter" /\ prov # "failing" /\ n_buffers >= 2
    /\ NumPaths >= 2 /\ path_sizes[1] >= 1 /\ path_sizes[2] >= 2
    /\ Len(delivered) = height
    /\ outcome = "row" /\ cidx = height - 1
    /\ delivered[height] = Row(1, path_sizes[2] - 1)

\* C3: with a provider that may return short buffers, the buffers appended
\* by the worker concatenate to the rows of all paths in path order (a
\* prefix of them while the worker runs), and every fetch targets the path
\* that holds the next unfetched row.
C3_NoDropNoDup ==
    prov = "short" =>
        /\ IsPrefix(Concat(fetched), AllRows)
        /\ (wpc = "done" => Concat(fetched) = AllRows)
        /\ (wpc = "fetch" =>
                /\ path_idx < NumPaths
                /\ CulmBefore(path_idx) <= fetch_idx
                /\ fetch_idx <= culm_sizes[path_idx + 1]
                /\ (fetch_idx = culm_sizes[path_idx + 1] => path_sizes[path_idx + 1] = 0)
                /\ TotalLen(fetched) = fetch_idx)

\* a buffer shorter than requested in the middle of path 0, then a fetch on path 1
C3_Witness ==
    /\ prov = "short" /\ buffer_size = 2 /\ NumPaths = 2
    /\ path_sizes[1] = 2 /\ path_sizes[2] = 1
    /\ Len(fetched) = 3 /\ Len(fetched[1]) = 1 /\ Len(fetched[2]) = 1
    /\ wpc = "done"
    /\ Concat(fetched) = AllRows

\* C4: the window never holds more than num_buffers buffers, and the worker
\* is in a slice call (or between it and the append) only when the window
\* holds fewer than num_buffers buffers.
C4_Backpressure ==
    /\ Len(buffers) <= n_buffers
    /\ (wpc \in {"fetch", "advance", "pathchk", "append"} => Len(buffers) < n_buffers)

\* the caller evicted a buffer between the worker's capacity test and its append
C4_Witness ==
    /\ wpc = "append"
    /\ Len(buffers) < seen_len
    /\ n_buffers >= 2

\* C5: the window never holds more than num_buffers * buffer_size rows.
C5_MemoryBound == TotalLen(buffers) <= n_buffers * buffer_size

C5_Witness ==
    /\ n_buffers >= 2
    /\ Len(buffers) = n_buffers
    /\ TotalLen(buffers) = n_buffers * buffer_size

\* C7: the k-th successful __getitem__ call returns global row k whatever
\* index was passed; a call whose index differs from the number of earlier
\* successful calls returns a row other than the one requested, without error.
C7_SequentialOnly ==
    /\ Len(delivered) <= height
    /\ \A k \in 1..Len(delivered) : delivered[k] = AllRows[k]
    /\ (cpc = "incr" => Len(delivered) < height /\ item = AllRows[Len(delivered) + 1])
    /\ (cpc = "incr" /\ cidx >= 0 /\ cidx # Len(delivered) => item # AllRows[cidx + 1])
    /\ outcome # "read_error"

C7_Witness ==
    /\ mode = "index"
    /\ outcome = "row" /\ cpc = "idle"
    /\ Len(delivered) = 2
    /\ cidx = 0
    /\ item = AllRows[2]

\* C2: for every num_buffers >= 1 and a non-failing provider, under fair
\* scheduling an iteration eventually yields height rows.
C2_IterationCompletes ==
    (mode = "iter" /\ prov # "failing") => <>(Len(delivered) = height)

\* C6: once a slice call has raised, the worker has stopped for good: that
\* call changed neither fetch_idx nor path_idx and appended nothing, nothing
\* is appended later, a running __getitem__ call ends only by returning a
\* row, the caller receives in order exactly the rows appended before the
\* failure, and its call for the first row not buffered never returns.
C6_SilentWorkerDeath ==
    /\ [][(~failed /\ failed') =>
            (wpc' = "dead" /\ UNCHANGED <<buffers, path_idx, fetch_idx, fetched>>)]_vars
    /\ [][failed =>
            (UNCHANGED <<wpc, path_idx, fetch_idx, fetched>> /\ Len(buffers') <= Len(buffers))]_vars
    /\ [][(failed /\ InCall /\ cpc' = "idle") => outcome' = "row"]_vars
    /\ [][(failed /\ InCall /\ delivered = Concat(fetched)) => (InCall' /\ UNCHANGED delivered)]_vars
    /\ [](failed => IsPrefix(delivered, Concat(fetched)))
    /\ ((failed /\ mode = "iter") ~> (delivered = Concat(fetched)))

C6_Witness ==
    /\ failed /\ wpc = "dead" /\ mode = "iter"
    /\ Len(fetched) >= 2
    /\ delivered = Concat(fetched)
    /\ Len(delivered) < height
    /\ cpc = "poll"

\* C8: on a dataset with height >= 1, once height rows have been returned
\* no __getitem__ call reads or returns again: the head buffer is exhausted,
\* every other buffer (queued or still to be appended) is empty, and a call
\* that passed validation stays in its waiting loop.
C8_NotRestartable ==
    /\ Len(delivered) <= height
    /\ (height >= 1 /\ Len(delivered) = height) =>
          /\ cpc \notin {"read", "incr"}
          /\ outcome # "read_error"
          /\ Len(buffers) >= 1
          /\ buffer_idx >= Len(buffers[1])
          /\ \A i \in 2..Len(buffers) : buffers[i] = <<>>
          /\ wbuf = <<>>
          /\ fetch_idx = height

\* a second iteration over the same dataset, stuck in its first call
C8_Witness ==
    /\ mode = "iter" /\ iters = 2 /\ iter_i = 0
    /\ cpc = "poll" /\ cidx = 0
    /\ height >= 2 /\ Len(delivered) = height
    /\ wpc = "done"

\* C9: __getitem__(height - 1) passes validation and, as the last call of an
\* iteration, returns the final row; __getitem__(idx) with idx >= height
\* raises at once and leaves the cursors and the window unchanged.
C9_UpperBoundary ==
    /\ [][(cpc = "validate" /\ cidx >= height /\ cpc' # "validate") =>
            /\ cpc' = "idle"
            /\ outcome' = "range_error"
            /\ UNCHANGED <<buffer_idx, path_idx, fetch_idx, buffers, delivered>>]_vars
    /\ [][(cpc = "validate" /\ cidx = height - 1 /\ cpc' # "validate") =>
            (cpc' = "loop" /\ outcome' = "none")]_vars
    /\ [](mode = "iter" /\ outcome = "row" /\ cidx = height - 1 =>
            (Len(delivered) = height /\ item = AllRows[height]))

C9_Witness ==
    /\ outcome = "range_error" /\ cpc = "idle"
    /\ cidx = height
    /\ Len(delivered) >= 1 /\ Len(delivered) < height

\* C10: every call with an index outside [0, height), negative ones too,
\* fails validation: it never waits, reads or returns a row.
C10_FullRangeValidation ==
    (cidx < 0 \/ cidx >= height) => (~InCall /\ outcome # "row")

\* h_0 + ... + h_{n-1}
RECURSIVE SumHeights(_)
SumHeights(n) == IF n = 0 THEN 0 ELSE path_sizes[n] + SumHeights(n - 1)

FeatureSet == {features.names[i] : i \in 1..Len(features.names)}

\* What a caller is to receive for a native record.
Projected(record) ==
    IF features.given THEN [f \in FeatureSet |-> record[f]] ELSE record

\* The sequence a full iteration is to yield: a function of the provider's
\* rows and of the feature list alone.
SnapshotRows == [k \in 1..Len(AllRows) |-> Projected(AllRows[k])]

\* C11: constructing a dataset over an empty path sequence fails with a
\* construction error, with or without feature names, and starts no worker.
C11_EmptyPathsRejected ==
    NumPaths = 0 => (ctor = "error" /\ wpc = "unstarted")

\* C12: with N >= 1 paths, len(dataset) and size[1] are h_0 + ... + h_{N-1},
\* and no worker or __getitem__ step changes the value.
C12_DatasetLength ==
    /\ []((ctor = "ok" /\ NumPaths >= 1) => height = SumHeights(NumPaths))
    /\ [][height' = height]_vars

C12_Witness ==
    /\ NumPaths = 2 /\ path_sizes[1] >= 1 /\ path_sizes[2] >= 1
    /\ height = path_sizes[1] + path_sizes[2]
    /\ wpc = "done"
    /\ Len(delivered) >= 2

\* C13: size[0] is the number of feature names when features are supplied,
\* else the width size() reports for the first path, whatever the widths of
\* the other paths; no step changes it.
C13_DatasetWidth ==
    /\ [](ctor = "ok" =>
            width = (IF features.given THEN Cardinality(DOMAIN features.names)
                     ELSE SizeOf(0)[1]))
    /\ [][width' = width]_vars

\* no features, and a first path whose width differs from the second's
C13_Witness ==
    /\ ~features.given
    /\ NumPaths = 2
    /\ SizeOf(0)[1] # SizeOf(1)[1]
    /\ width = SizeOf(0)[1]
    /\ Len(delivered) >= 1

\* C14: with feature names, every returned item has exactly the feature
\* names as keys, each with the value of that column in the k-th record;
\* without them the item is the k-th native record.
C14_FeatureProjection ==
    /\ Len(delivered) <= height
    /\ \A k \in 1..Len(delivered) :
          IF features.given
          THEN /\ DOMAIN delivered[k] = FeatureSet
               /\ \A f \in FeatureSet : delivered[k][f] = AllRows[k][f]
               /\ "path" \notin DOMAIN delivered[k]
          ELSE delivered[k] = AllRows[k]

C14_Witness ==
    /\ features.given
    /\ height >= 2 /\ Len(delivered) = height
    /\ DOMAIN delivered[height] = {"x", "y"}
    /\ delivered[height]["x"] = AllRows[height]["x"]

\* C15: what an iteration yields is determined by the provider's rows and
\* the feature list alone: under every interleaving, every window depth,
\* buffer size and slice length, the rows yielded so far are a prefix of
\* the same sequence, and a full iteration yields all of it.
C15_Deterministic ==
    mode = "iter" =>
        /\ IsPrefix(delivered, SnapshotRows)
        /\ (iter_i = -1 /\ iters >= 1 /\ height >= 1 => delivered = SnapshotRows)

C15_Witness ==
    /\ mode = "iter" /\ iter_i = -1 /\ iters = 1
    /\ prov = "short" /\ features.given
    /\ NumPaths = 2 /\ height = 3
    /\ delivered = SnapshotRows

\* C16: the paths passed to slice never go back, a slice call on a path is
\* made only once fetch_idx has reached the cumulative row count of the
\* paths before it, every buffer holds rows of the one path it was sliced
\* from, and a slice call is made only when the previous buffer is appended.
C16_PathsInOrder ==
    /\ \A k \in 1..(Len(slices) - 1) : slices[k].path <= slices[k + 1].path
    /\ \A k \in 1..Len(slices) : slices[k].start >= 0
    /\ (wpc = "fetch" => fetch_idx >= CulmBefore(path_idx))
    /\ Len(fetched) <= Len(slices)
    /\ \A k \in 1..Len(fetched) :
          \A j \in 1..Len(fetched[k]) : fetched[k][j]["path"][2] = slices[k].path
    /\ Len(slices) - Len(fetched) <= 1
    /\ (Len(slices) - Len(fetched) = 1 <=> wpc \in {"advance", "pathchk", "append", "dead"})

C16_Witness ==
    /\ NumPaths = 2 /\ path_sizes[1] = 2 /\ path_sizes[2] = 1
    /\ buffer_size = 1
    /\ Len(slices) = 3
    /\ slices[2].path = 0 /\ slices[3].path = 1 /\ slices[3].start = 0
    /\ wpc = "done"

\* C17: with num_buffers >= 2 and a non-failing provider, while rows remain
\* for an iterating caller: when the caller can neither read nor evict the
\* worker has not terminated and, if it is at its tests, passes them; and
\* when the window is full the caller can read or evict.
C17_NoDeadlock ==
    (mode = "iter" /\ prov # "failing" /\ n_buffers >= 2 /\ ctor = "ok") =>
        /\ (Len(delivered) < height /\ MustWait /\ ~CanEvict) =>
              /\ wpc # "done"
              /\ (wpc \in {"loop", "cap", "sleep"} => (HasCapacity /\ ~PathsExhausted))
        /\ (~HasCapacity => (~MustWait \/ CanEvict))

\* the worker waits for capacity while the caller is about to evict
C17_Witness ==
    /\ mode = "iter" /\ prov # "failing" /\ n_buffers = 2
    /\ wpc = "sleep" /\ ~HasCapacity
    /\ cpc = "poll" /\ CanEvict
    /\ Len(delivered) < height

\* C18 as claimed: no step decreases path_idx, fetch_idx or buffer_idx.
C18_CursorMonotonic ==
    [][/\ path_idx' >= path_idx
       /\ fetch_idx' >= fetch_idx
       /\ buffer_idx' >= buffer_idx]_vars

\* C18 amended: no step decreases path_idx or fetch_idx, and buffer_idx
\* decreases only when __getitem__ evicts the exhausted head buffer, which
\* resets it to 0; the number of rows returned never decreases.
C18_MonotonicButEviction ==
    [][/\ path_idx' >= path_idx
       /\ fetch_idx' >= fetch_idx
       /\ \/ buffer_idx' >= buffer_idx
          \/ /\ buffer_idx' = 0
             /\ cpc = "poll"
             /\ Len(buffers) > 1
             /\ buffer_idx >= Len(buffers[1])
             /\ buffers' = Tail(buffers)
       /\ Len(delivered') >= Len(delivered)]_vars

\* just after an eviction that reset a positive buffer_idx
C18_Witness ==
    /\ cpc = "loop" /\ buffer_idx = 0
    /\ Len(delivered) >= 1
    /\ TotalLen(fetched) - TotalLen(buffers) = Len(delivered)
    /\ Len(buffers) < Len(fetched)

\* C19: path_idx <= len(paths), fetch_idx <= height, and while
\* path_idx < len(paths) fetch_idx lies between the cumulative row count
\* before path path_idx and the cumulative row count through it.
C19_ProducerBounds ==
    /\ path_idx <= NumPaths
    /\ fetch_idx <= height
    /\ (path_idx < NumPaths =>
            /\ CulmBefore(path_idx) <= fetch_idx
            /\ fetch_idx <= culm_sizes[path_idx + 1])

\* fetch_idx has reached the end of path 0 and path_idx is still to advance
C19_Witness ==
    /\ NumPaths = 2 /\ path_sizes[1] = 2 /\ path_sizes[2] = 1
    /\ wpc = "pathchk" /\ path_idx = 0
    /\ fetch_idx = culm_sizes[1]

\* C20: whenever __getitem__ reads, the window is non-empty and
\* 0 <= buffer_idx < len(head); the read never raises; and the return
\* advances buffer_idx by exactly 1.
C20_InBoundsReads ==
    /\ [](cpc = "read" =>
            (Len(buffers) >= 1 /\ 0 <= buffer_idx /\ buffer_idx < Len(buffers[1])))
    /\ [](cpc = "incr" =>
            (Len(buffers) >= 1 /\ 0 <= buffer_idx /\ buffer_idx < Len(buffers[1])))
    /\ [](outcome # "read_error")
    /\ [][(cpc = "read" /\ cpc' # "read") =>
            (cpc' = "incr" /\ buffer_idx' = buffer_idx /\ buffers' = buffers)]_vars
    /\ [][(cpc = "incr" /\ cpc' # "incr") =>
            (outcome' = "row" /\ buffer_idx' = buffer_idx + 1)]_vars

\* the second row of the head is read while the worker has appended more
C20_Witness ==
    /\ cpc = "read" /\ buffer_idx = 1
    /\ Len(buffers) >= 2 /\ Len(buffers[1]) = 2
    /\ wpc = "append"

\* The buffers the caller has evicted so far: the window is what remains of
\* the appended buffers.
Evicted == SubSeq(fetched, 1, Len(fetched) - Len(buffers))

\* C21: the head buffer is removed only by a waiting __getitem__ call, only
\* when buffer_idx >= len(head) and more than one buffer is queued, and the
\* removal sets buffer_idx to 0; so every evicted buffer has been read to
\* its end, and a call that finds the head exhausted and alone in the
\* window waits without evicting.
C21_EvictionRule ==
    /\ [][Len(buffers') < Len(buffers) =>
            /\ cpc = "poll"
            /\ Len(buffers) > 1
            /\ buffer_idx >= Len(buffers[1])
            /\ buffer_idx = Len(buffers[1])
            /\ buffers' = Tail(buffers)
            /\ buffer_idx' = 0]_vars
    /\ [][(cpc = "poll" /\ cpc' # "poll" /\ Len(buffers) > 1
               /\ buffer_idx >= Len(buffers[1])) =>
            (buffers' = Tail(buffers) /\ buffer_idx' = 0)]_vars
    /\ [][(cpc = "poll" /\ cpc' # "poll" /\ Len(buffers) = 1) =>
            (buffers' = buffers /\ buffer_idx' = buffer_idx /\ cpc' = "loop")]_vars
    /\ [][(buffer_idx' # buffer_idx /\ buffer_idx' = 0) =>
            Len(buffers') < Len(buffers)]_vars

\* after an eviction, the caller waits on an exhausted head that is alone
C21_Witness ==
    /\ cpc = "poll"
    /\ Len(buffers) = 1 /\ buffer_idx >= 1 /\ buffer_idx = Len(buffers[1])
    /\ Len(fetched) >= 2
    /\ wpc # "done"

\* C24: a worker step leaves buffer_idx alone and changes the window only
\* by appending one buffer at its tail; a caller step leaves path_idx and
\* fetch_idx alone and changes the window only by removing its head.
C24_SingleWriter ==
    /\ [][wpc' # wpc =>
            /\ buffer_idx' = buffer_idx
            /\ IsPrefix(buffers, buffers')
            /\ Len(buffers') <= Len(buffers) + 1]_vars
    /\ [][(path_idx' # path_idx \/ fetch_idx' # fetch_idx \/ Len(buffers') > Len(buffers)) =>
            (wpc' # wpc /\ UNCHANGED callerVars)]_vars
    /\ [][callerVars' # callerVars =>
            /\ path_idx' = path_idx
            /\ fetch_idx' = fetch_idx
            /\ (buffers' = buffers \/ (buffers # <<>> /\ buffers' = Tail(buffers)))]_vars
    /\ [][(buffer_idx' # buffer_idx \/ Len(buffers') < Len(buffers)) =>
            (callerVars' # callerVars /\ UNCHANGED workerVars)]_vars

\* the worker appends behind a head the caller is half way through
C24_Witness ==
    /\ wpc = "loop" /\ cpc = "idle"
    /\ Len(buffers) >= 2 /\ Len(buffers[1]) = 2 /\ buffer_idx = 1
    /\ Len(fetched) > Len(buffers)
    /\ path_idx >= 1

\* C26: every slice call is made on path path_idx with start = fetch_idx
\* minus the rows of all earlier paths and end = start + buffer_size; start
\* lies in 0..h_path, and below h_path when the path has rows.
C26_PathLocalWindow ==
    [][Len(slices') > Len(slices) =>
         LET call == slices'[Len(slices')]
         IN  /\ Len(slices') = Len(slices) + 1
             /\ path_idx < NumPaths
             /\ call.path = path_idx
             /\ call.start = fetch_idx - SumHeights(path_idx)
             /\ call.end = call.start + buffer_size
             /\ 0 <= call.start
             /\ call.start <= path_sizes[path_idx + 1]
             /\ (path_sizes[path_idx + 1] >= 1 => call.start < path_sizes[path_idx + 1])]_vars

\* a call in the middle of the second path
C26_Witness ==
    /\ NumPaths = 2 /\ path_sizes[1] >= 1 /\ path_sizes[2] >= 2
    /\ wpc = "advance"
    /\ Len(slices) >= 2
    /\ slices[Len(slices)].path = 1
    /\ slices[Len(slices)].start = 1
    /\ fetch_idx = path_sizes[1] + 1

\* C27: the rows returned so far number the rows of the evicted buffers
\* plus buffer_idx; they are at most the rows appended so far, which are at
\* most fetch_idx, which is at most height.
C27_NoOvertake ==
    /\ Len(buffers) <= Len(fetched)
    /\ buffers = SubSeq(fetched, Len(fetched) - Len(buffers) + 1, Len(fetched))
    /\ Len(delivered) = TotalLen(Evicted) + buffer_idx
    /\ Len(delivered) <= TotalLen(fetched)
    /\ TotalLen(fetched) <= fetch_idx
    /\ fetch_idx <= height

\* the caller has caught up with everything the worker has appended so far
C27_Witness ==
    /\ Len(delivered) = TotalLen(fetched)
    /\ Len(delivered) >= 2 /\ Len(delivered) < height
    /\ Len(Evicted) >= 1
    /\ fetch_idx > TotalLen(fetched)

\* C28: once the worker has appended a buffer the window is never empty
\* again, and its tail is the last buffer appended, also after the
\* iteration has returned every row.
C28_WindowStaysNonEmpty ==
    /\ [](Len(fetched) >= 1 =>
            (Len(buffers) >= 1 /\ buffers[Len(buffers)] = fetched[Len(fetched)]))
    /\ [][Len(buffers) >= 1 => Len(buffers') >= 1]_vars

\* iteration is over, every buffer but the last was evicted
C28_Witness ==
    /\ mode = "iter" /\ iter_i = -1 /\ iters = 1
    /\ height >= 2 /\ Len(delivered) = height
    /\ wpc = "done"
    /\ Len(fetched) >= 2
    /\ Len(buffers) = 1 /\ buffers[1] = fetched[Len(fetched)]

\* C30: entry i of the cumulative size table is h_0 + ... + h_i, the table
\* is non-decreasing, its last entry is height, and no step changes it.
C30_CulmTable ==
    /\ [](/\ Len(culm_sizes) = NumPaths
          /\ \A i \in 1..NumPaths : culm_sizes[i] = SumHeights(i)
          /\ \A i \in 1..(NumPaths - 1) : culm_sizes[i] <= culm_sizes[i + 1]
          /\ (ctor = "ok" /\ NumPaths >= 1 => culm_sizes[NumPaths] = height))
    /\ [][culm_sizes' = culm_sizes]_vars

C30_Witness ==
    /\ NumPaths = 2 /\ path_sizes[1] = 1 /\ path_sizes[2] = 2
    /\ culm_sizes = <<1, 3>>
    /\ wpc = "done" /\ Len(delivered) = 3

Ceil(h, b) == (h + b - 1) \div b

\* The lengths of the buffers path p is read in: full buffers, then what
\* remains; a path without rows gives one empty buffer.
BufferSizesOf(p) ==
    LET h == path_sizes[p + 1]
        n == Ceil(h, buffer_size)
    IN  IF h = 0 THEN <<0>>
        ELSE [j \in 1..n |-> IF j < n THEN buffer_size ELSE h - buffer_size * (n - 1)]

RECURSIVE ExpectedSizesFrom(_)
ExpectedSizesFrom(p) ==
    IF p >= NumPaths THEN <<>> ELSE BufferSizesOf(p) \o ExpectedSizesFrom(p + 1)

\* the path each of those buffers is sliced from
RECURSIVE ExpectedPathsFrom(_)
ExpectedPathsFrom(p) ==
    IF p >= NumPaths THEN <<>>
    ELSE [j \in 1..Len(BufferSizesOf(p)) |-> p] \o ExpectedPathsFrom(p + 1)

FetchedSizes == [k \in 1..Len(fetched) |-> Len(fetched[k])]

SlicePaths == [k \in 1..Len(slices) |-> slices[k].path]

\* C25: with a provider returning full slices, the worker makes
\* ceil(h_i / buffer_size) slice calls on each path with rows, every buffer
\* has buffer_size rows but the last of its path, which has the remainder,
\* and no buffer of such a path is empty; one path of 10 rows with
\* buffer_size 3 and num_buffers 2 gives buffers of 3, 3, 3 and 1 rows.
C25_BufferSizes ==
    prov = "mock" =>
        /\ IsPrefix(FetchedSizes, ExpectedSizesFrom(0))
        /\ IsPrefix(SlicePaths, ExpectedPathsFrom(0))
        /\ (wpc = "done" =>
                /\ FetchedSizes = ExpectedSizesFrom(0)
                /\ SlicePaths = ExpectedPathsFrom(0)
                /\ \A p \in 0..(NumPaths - 1) :
                      path_sizes[p + 1] >= 1 =>
                          Cardinality({k \in 1..Len(slices) : slices[k].path = p})
                              = Ceil(path_sizes[p + 1], buffer_size))
        /\ \A k \in 1..Len(fetched) :
              path_sizes[slices[k].path + 1] >= 1 =>
                  /\ Len(fetched[k]) >= 1
                  /\ Len(fetched[k]) <= buffer_size
                  /\ (Len(fetched[k]) < buffer_size =>
                          slices[k].start + Len(fetched[k]) = path_sizes[slices[k].path + 1])
        /\ (path_sizes = <<10>> /\ buffer_size = 3 /\ wpc = "done" =>
                FetchedSizes = <<3, 3, 3, 1>>)

C25_Witness ==
    /\ path_sizes = <<10>> /\ buffer_size = 3 /\ n_buffers = 2
    /\ wpc = "done"
    /\ FetchedSizes = <<3, 3, 3, 1>>
    /\ Len(slices) = 4
    /\ Len(delivered) = 10

\* the paths size() reports no rows for
ZeroPaths == {p \in 0..(NumPaths - 1) : path_sizes[p + 1] = 0}

SlicesOn(p) == {k \in 1..Len(slices) : slices[k].path = p}

\* C29: with a non-failing provider, a path without rows gets exactly one
\* slice call, whose empty buffer is appended to the window while path_idx
\* advances by one; a reading caller never reads from an empty buffer, an
\* eviction of an empty head returns no row, and with num_buffers >= 2 an
\* iterating caller still receives the rows of all paths in order: an empty
\* head with buffers behind it can be evicted, and one alone in the window
\* while rows remain has the worker still running.
C29_ZeroHeightPaths ==
    /\ [](prov # "failing" =>
            /\ \A p \in ZeroPaths :
                  /\ Cardinality(SlicesOn(p)) <= 1
                  /\ (path_idx > p => Cardinality(SlicesOn(p)) = 1)
                  /\ \A k \in SlicesOn(p) :
                        /\ slices[k].start = 0
                        /\ (k <= Len(fetched) => fetched[k] = <<>>)
                        /\ (k > Len(fetched) => wbuf = <<>>)
            /\ (cpc \in {"read", "incr"} => (Len(buffers) >= 1 /\ buffers[1] # <<>>))
            /\ ((mode = "iter" /\ n_buffers >= 2) =>
                  /\ IsPrefix(delivered, AllRows)
                  /\ (cpc = "poll" /\ Len(buffers) >= 2 /\ buffers[1] = <<>> => CanEvict)
                  /\ (Len(delivered) < height /\ Len(buffers) = 1 /\ buffers[1] = <<>>
                          => wpc # "done")))
    /\ [][(prov # "failing" /\ wpc = "pathchk" /\ wpc' # wpc /\ path_idx < NumPaths
              /\ path_sizes[path_idx + 1] = 0) =>
            path_idx' = path_idx + 1]_vars
    /\ [][(prov # "failing" /\ wpc = "append" /\ wpc' # wpc /\ Len(slices) >= 1
              /\ slices[Len(slices)].path \in ZeroPaths) =>
            (buffers' = Append(buffers, <<>>) /\ Len(buffers') <= n_buffers)]_vars
    /\ [][(Len(buffers') < Len(buffers) /\ buffers[1] = <<>>) =>
            (delivered' = delivered /\ buffer_idx = 0 /\ buffer_idx' = 0)]_vars

\* the empty buffer of the first path was evicted and the rows of the
\* second path were all returned
C29_Witness ==
    /\ mode = "iter" /\ prov # "failing" /\ n_buffers = 2
    /\ NumPaths = 2 /\ path_sizes[1] = 0 /\ path_sizes[2] = 2
    /\ Cardinality(SlicesOn(0)) = 1
    /\ Len(fetched) >= 2
    /\ fetched[1] = <<>>
    /\ Len(buffers) < Len(fetched)
    /\ delivered = AllRows /\ Len(delivered) = 2

\* The worker returns only from its test of path_idx, with every row fetched
\* and every buffer appended, and does nothing afterwards.
WorkerReturnRule ==
    /\ [][(wpc # "done" /\ wpc' = "done") =>
            /\ wpc = "loop"
            /\ path_idx >= NumPaths
            /\ fetch_idx = height
            /\ wbuf = <<>>
            /\ Len(fetched) = Len(slices)]_vars
    /\ [][(wpc = "loop" /\ wpc' # wpc /\ path_idx >= NumPaths) => wpc' = "done"]_vars
    /\ [][wpc = "done" =>
            (UNCHANGED <<wpc, path_idx, fetch_idx, fetched, slices>>
                /\ Len(buffers') <= Len(buffers))]_vars

\* C22: the worker returns exactly when it finds path_idx >= len(paths);
\* fetch_idx is then height and every buffer fetched is in the window or
\* was; afterwards it appends nothing and changes neither path_idx nor
\* fetch_idx; and with num_buffers >= 2, a provider that does not fail and
\* a caller that iterates to the end, under fair scheduling the worker
\* eventually returns.
C22_WorkerTerminates ==
    /\ WorkerReturnRule
    /\ ((/\ mode = "iter" /\ n_buffers >= 2 /\ prov # "failing" /\ ctor = "ok"
         /\ <>(iters >= 1 /\ iter_i = -1 /\ Len(delivered) = height))
            => <>(wpc = "done"))

\* the number of buffers a provider returning full slices gives in all
TotalBuffers == Len(ExpectedSizesFrom(0))

MinOf(a, b) == IF a <= b THEN a ELSE b

WorkerWaiting == wpc \in {"loop", "cap", "sleep"}

\* C23: with a provider returning full slices and B buffers in all, a fairly
\* scheduled worker whose dataset is never read fills the window with
\* min(num_buffers, B) buffers and keeps it so; it makes a slice call only
\* with room in the window, and does not return before all B buffers are
\* fetched, so with B > num_buffers not before the caller has evicted; and
\* once the caller makes no further call, the worker either has returned
\* or waits forever on a full window.
C23_PrefetchAhead ==
    /\ [](/\ Len(fetched) <= TotalBuffers
          /\ (wpc = "done" => Len(fetched) = TotalBuffers)
          /\ (Len(buffers) = Len(fetched) =>
                 /\ Len(buffers) <= MinOf(n_buffers, TotalBuffers)
                 /\ (TotalBuffers > n_buffers => wpc # "done"))
          /\ (delivered = <<>> /\ buffer_idx = 0 /\ cpc \in {"idle", "none"}
                 => Len(buffers) = Len(fetched)))
    /\ [][Len(slices') > Len(slices) => Len(buffers) < n_buffers]_vars
    /\ ([](cpc \in {"idle", "none"}) =>
            <>[](Len(buffers) = MinOf(n_buffers, TotalBuffers)))
    /\ (<>[](cpc \in {"idle", "none"}) =>
            <>[](\/ wpc \in {"done", "unstarted"}
                 \/ (Len(buffers) = n_buffers /\ WorkerWaiting)))

\* the window is full of buffers nobody has read, more remain to be
\* fetched, and the worker sleeps
C23_Witness ==
    /\ delivered = <<>> /\ cpc = "idle" /\ iters = 0
    /\ TotalBuffers > n_buffers
    /\ n_buffers >= 2
    /\ Len(buffers) = n_buffers
    /\ Len(fetched) = n_buffers
    /\ wpc = "sleep"

====
